---- MODULE Spec2Model ----
(***************************************************************************)
(* Model of the identifier-resolution and message-delivery pipeline of     *)
(* slack-chat-api (slck): the channel resolver, the user resolver with its *)
(* cache, and the send command (runSend / uploadFiles).                    *)
(*                                                                         *)
(* Go strings are modelled as sequences of one-character strings, so that  *)
(* prefix stripping, case folding, scanning and matching are computed the  *)
(* way the code computes them.  Error values are modelled as the sequence  *)
(* of fragments of the message the code formats.                           *)
(***************************************************************************)
EXTENDS Integers, Sequences, FiniteSets, TLC

VARIABLES
    \* ---- channel resolver (internal/client/channel_resolver.go)
    token,      \* the channel argument of the ResolveChannel call
    listing,    \* what the platform answers to conversations.list
    cpc,        \* position of the ResolveChannel call: "start" | "done"
    chanRet,    \* the (id, err) pair ResolveChannel returned
    chanCalls,  \* API calls issued by the ResolveChannel call, in order
    \* ---- user resolver (UserResolver: cache, mu) and its callers
    cache,      \* r.cache: user ID -> display name
    mu,         \* r.mu: 0 when free, else the caller that holds it
    pc,         \* each caller's position inside Resolve
    arg,        \* each caller's userID argument
    uname,      \* each caller's local variable name (after a successful lookup)
    ret,        \* the value each caller's last Resolve call returned
    outcome,    \* the exit path of each caller's last Resolve call
    lookups,    \* per user ID, the GetUserInfo calls issued so far
    failed,     \* per user ID, the GetUserInfo calls that returned an error
    nCalls,     \* Resolve calls made so far
    \* ---- ResolveMentions
    mtext,      \* the text argument
    mpc,        \* position of the ResolveMentions call
    mpos,       \* first character of mtext not yet consumed by the scan
    mout,       \* the result built so far
    mres,       \* the Resolve calls made by the replacement callback, in order
    \* ---- runSend (internal/cmd/messages/send.go)
    sChannel,   \* the channel argument
    sText,      \* the text argument
    opts,       \* *sendOptions
    text,       \* the local variable text
    blocksSource,   \* the local variable blocksSource
    channelID,  \* the local variable channelID
    uploadedFiles,  \* uploadFiles: the local variable uploadedFiles
    spc,        \* position of the runSend call
    serr,       \* the error runSend returned (NoError: nil)
    slog,       \* stdin reads, file accesses and API calls made, in order
    sout,       \* what was printed with output.Printf / PrintJSON, in order
    \* ---- runArchive (internal/cmd/channels/archive.go)
    aChannel,   \* the channel argument
    aForce,     \* opts.force
    aChannelID, \* the local variable channelID
    apc,        \* position of the runArchive call
    aerr,       \* the error runArchive returned (NoError: nil)
    alog,       \* stdin reads and API calls made, in order
    aout        \* what was printed, in order

chanVars == <<token, listing, cpc, chanRet, chanCalls>>
userVars == <<cache, mu, pc, arg, uname, ret, outcome, lookups, failed, nCalls>>
mentionVars == <<mtext, mpc, mpos, mout, mres>>
sendVars == <<sChannel, sText, opts, text, blocksSource, channelID, uploadedFiles,
              spc, serr, slog, sout>>

archVars == <<aChannel, aForce, aChannelID, apc, aerr, alog, aout>>

vars == <<chanVars, userVars, mentionVars, sendVars, archVars>>

(***************************************************************************)
(* Bounds of the model.                                                    *)
(***************************************************************************)
MaxTokenLen == 3
MaxChannels == 2
NumCallers == 2
MaxResolveCalls == 3
MaxFragments == 3
MaxFiles == 2
MaxListingCalls == 2

(***************************************************************************)
(* Strings.                                                                *)
(***************************************************************************)
Range(s) == {s[i] : i \in 1..Len(s)}

RECURSIVE SeqsUpTo(_, _)
SeqsUpTo(S, n) ==
    IF n = 0 THEN {<<>>}
    ELSE LET shorter == SeqsUpTo(S, n - 1)
         IN  shorter \cup {Append(s, c) : s \in {t \in shorter : Len(t) = n - 1}, c \in S}

Digits == {"0", "1", "2", "3", "4", "5", "6", "7", "8", "9"}
UpperLetters == {"A", "B", "C", "D", "E", "F", "G", "H", "I", "J", "K", "L", "M",
                 "N", "O", "P", "Q", "R", "S", "T", "U", "V", "W", "X", "Y", "Z"}

\* strings.ToLower on one character (ASCII letters of the model's alphabets)
LowerChar(c) ==
    CASE c = "C" -> "c"
      [] c = "G" -> "g"
      [] c = "D" -> "d"
      [] c = "Z" -> "z"
      [] c = "U" -> "u"
      [] c = "A" -> "a"
      [] c = "Y" -> "y"
      [] c = "E" -> "e"
      [] c = "S" -> "s"
      [] OTHER -> c

ToLower(s) == [i \in 1..Len(s) |-> LowerChar(s[i])]

\* mutant: a case-sensitive comparison (ch.Name == name)
EqualFoldExact(a, b) == a = b

\* strings.EqualFold: equality under simple case folding
EqualFold(a, b) ==
    /\ Len(a) = Len(b)
    /\ \A i \in 1..Len(a) : LowerChar(a[i]) = LowerChar(b[i])

\* strings.TrimPrefix(s, "#"): removes at most one leading '#'
TrimPrefix(s) == IF Len(s) > 0 /\ s[1] = "#" THEN Tail(s) ELSE s

(***************************************************************************)
(* Channel resolver.                                                       *)
(***************************************************************************)
NoError == <<>>

ErrChannelEmpty == <<"channel cannot be empty">>
ErrListFailed == <<"failed to list channels: ", "transport error">>
ErrChannelNotFound(name) ==
    <<"channel '">> \o name \o
    <<"' not found. Use '", "slck channels list", "' to see available channels">>

ListCall == "conversations.list"

\* the loop of IsChannelID over rest := s[1:], from position i on
RECURSIVE RestLoop(_, _, _)
RestLoop(s, i, hasDigit) ==
    IF i > Len(s) THEN hasDigit
    ELSE IF s[i] \in Digits THEN RestLoop(s, i + 1, TRUE)
    ELSE IF s[i] \notin UpperLetters THEN FALSE
    ELSE RestLoop(s, i + 1, hasDigit)

\* mutant: the prefix test left out
IsChannelIDAnyPrefix(s) ==
    IF Len(s) < 2 THEN FALSE ELSE RestLoop(s, 2, FALSE)

IsChannelID(s) ==
    IF Len(s) < 2 THEN FALSE
    ELSE IF s[1] # "C" /\ s[1] # "G" /\ s[1] # "D" THEN FALSE
    ELSE RestLoop(s, 2, FALSE)

\* the first channel of the listing whose name folds to name, 0 when none
RECURSIVE FirstMatch(_, _, _)
FirstMatch(channels, name, i) ==
    IF i > Len(channels) THEN 0
    ELSE IF EqualFold(channels[i].Name, name) THEN i
    ELSE FirstMatch(channels, name, i + 1)

\* the listing call's answer: the channels, or a transport/API failure
ListFailed == [ok |-> FALSE, channels |-> <<>>]
ListOK(channels) == [ok |-> TRUE, channels |-> channels]

\* mutant: a failed listing is tried a second time
lookupChannelByNameRetry(name0, lst) ==
    LET name == ToLower(TrimPrefix(name0))
    IN  IF ~lst.ok
        THEN [id |-> <<>>, err |-> ErrListFailed, calls |-> <<ListCall, ListCall>>]
        ELSE LET i == FirstMatch(lst.channels, name, 1)
             IN  IF i # 0
                 THEN [id |-> lst.channels[i].ID, err |-> NoError, calls |-> <<ListCall>>]
                 ELSE [id |-> <<>>, err |-> ErrChannelNotFound(name),
                       calls |-> <<ListCall>>]

lookupChannelByName(name0, lst) ==
    LET name == ToLower(TrimPrefix(name0))
    IN  IF ~lst.ok
        THEN [id |-> <<>>, err |-> ErrListFailed, calls |-> <<ListCall>>]
        ELSE LET i == FirstMatch(lst.channels, name, 1)
             IN  IF i # 0
                 THEN [id |-> lst.channels[i].ID, err |-> NoError, calls |-> <<ListCall>>]
                 ELSE [id |-> <<>>, err |-> ErrChannelNotFound(name),
                       calls |-> <<ListCall>>]

\* mutant: the ID short cut left out, every token is looked up by name
ResolveChannelAlwaysLookup(channel0, lst) ==
    LET channel == TrimPrefix(channel0)
    IN  IF channel = <<>>
        THEN [id |-> <<>>, err |-> ErrChannelEmpty, calls |-> <<>>]
        ELSE lookupChannelByName(channel, lst)

\* mutant: the emptiness test made before the '#' is stripped
ResolveChannelEmptyBeforeTrim(channel0, lst) ==
    LET channel == TrimPrefix(channel0)
    IN  IF channel0 = <<>>
        THEN [id |-> <<>>, err |-> ErrChannelEmpty, calls |-> <<>>]
        ELSE IF IsChannelID(channel)
        THEN [id |-> channel, err |-> NoError, calls |-> <<>>]
        ELSE lookupChannelByName(channel, lst)

ResolveChannel(channel0, lst) ==
    LET channel == TrimPrefix(channel0)
    IN  IF channel = <<>>
        THEN [id |-> <<>>, err |-> ErrChannelEmpty, calls |-> <<>>]
        ELSE IF IsChannelID(channel)
        THEN [id |-> channel, err |-> NoError, calls |-> <<>>]
        ELSE lookupChannelByName(channel, lst)


(***************************************************************************)
(* Inputs of the channel resolver.                                         *)
(***************************************************************************)
TokenAlphabet == {"#", "C", "G", "D", "Z", "c", "1"}
Tokens == SeqsUpTo(TokenAlphabet, MaxTokenLen)

Channels ==
    { [ID |-> <<"C", "1">>, Name |-> <<"c">>],
      [ID |-> <<"C", "2">>, Name |-> <<"c", "1">>],
      [ID |-> <<"G", "3">>, Name |-> <<"z">>],
      [ID |-> <<"C", "4">>, Name |-> <<"G">>] }

Listings == {ListOK(l) : l \in SeqsUpTo(Channels, MaxChannels)} \cup {ListFailed}

NoRet == [id |-> <<>>, err |-> NoError]

(***************************************************************************)
(* User resolver.                                                          *)
(***************************************************************************)
Callers == 1..NumCallers

EmptyID == <<>>
UserIDs == {<<"U", "1">>, <<"U", "A">>}
AllIDs == UserIDs \cup {EmptyID}

\* client.User as GetUserInfo may return it for user ID u: the display name,
\* the real name and the account name, each possibly empty.  A profile can
\* change between two lookups.
User(d, r, n) == [DisplayName |-> d, RealName |-> r, Name |-> n]

Profiles(u) ==
    IF u = <<"U", "1">>
    THEN { User(<<"a">>, <<"b">>, <<"c">>), User(<<>>, <<"b">>, <<"c">>),
           User(<<>>, <<>>, <<"c">>), User(<<>>, <<>>, <<>>) }
    ELSE IF u = <<"U", "A">>
    THEN { User(<<"x">>, <<"y">>, <<"z">>), User(<<>>, <<>>, <<>>) }
    ELSE {}

\* mutant: the real name is taken before the display name
DisplayNameOfRealFirst(user, userID) ==
    LET n1 == user.RealName
        n2 == IF n1 = <<>> THEN user.DisplayName ELSE n1
        n3 == IF n2 = <<>> THEN user.Name ELSE n2
    IN  IF n3 = <<>> THEN userID ELSE n3

\* lines 44-53 of Resolve: the name computed from a user record
DisplayNameOf(user, userID) ==
    LET n1 == user.DisplayName
        n2 == IF n1 = <<>> THEN user.RealName ELSE n1
        n3 == IF n2 = <<>> THEN user.Name ELSE n2
    IN  IF n3 = <<>> THEN userID ELSE n3

\* Resolve, lines 27-31: entry, and the return for an empty user ID
ResolveEnter(p, userID) ==
    /\ arg' = [arg EXCEPT ![p] = userID]
    /\ nCalls' = nCalls + 1
    /\ IF userID = EmptyID
       THEN /\ ret' = [ret EXCEPT ![p] = userID]
            /\ outcome' = [outcome EXCEPT ![p] = "empty"]
            /\ pc' = [pc EXCEPT ![p] = "done"]
       ELSE /\ pc' = [pc EXCEPT ![p] = "lock1"]
            /\ outcome' = [outcome EXCEPT ![p] = "none"]
            /\ UNCHANGED ret
    /\ UNCHANGED <<cache, mu, uname, lookups, failed>>

\* a caller calls r.Resolve(userID)
ResolveCall(p, userID) ==
    /\ pc[p] \in {"idle", "done"}
    /\ nCalls < MaxResolveCalls
    /\ ResolveEnter(p, userID)
    /\ UNCHANGED <<chanVars, mentionVars, sendVars, archVars>>

\* mutant: the lock is taken without waiting for it to be free
Lock1NoWait(p) ==
    /\ pc[p] = "lock1"
    /\ mu' = p
    /\ pc' = [pc EXCEPT ![p] = "check"]
    /\ UNCHANGED <<cache, arg, uname, ret, outcome, lookups, failed, nCalls>>
    /\ UNCHANGED <<chanVars, mentionVars, sendVars, archVars>>

\* line 32: r.mu.Lock()
Lock1(p) ==
    /\ pc[p] = "lock1"
    /\ mu = 0
    /\ mu' = p
    /\ pc' = [pc EXCEPT ![p] = "check"]
    /\ UNCHANGED <<cache, arg, uname, ret, outcome, lookups, failed, nCalls>>
    /\ UNCHANGED <<chanVars, mentionVars, sendVars, archVars>>

\* mutant: on a hit the call returns without unlocking
CacheCheckHitKeepsLock(p) ==
    /\ pc[p] = "check"
    /\ IF arg[p] \in DOMAIN cache
       THEN /\ mu' = mu
            /\ ret' = [ret EXCEPT ![p] = cache[arg[p]]]
            /\ outcome' = [outcome EXCEPT ![p] = "hit"]
            /\ pc' = [pc EXCEPT ![p] = "done"]
            /\ UNCHANGED lookups
       ELSE /\ mu' = 0
            /\ pc' = [pc EXCEPT ![p] = "lookup"]
            /\ lookups' = [lookups EXCEPT ![arg[p]] = @ + 1]
            /\ UNCHANGED <<ret, outcome>>
    /\ UNCHANGED <<cache, arg, uname, failed, nCalls>>
    /\ UNCHANGED <<chanVars, mentionVars, sendVars, archVars>>

\* mutant: on a miss the lock is kept while GetUserInfo is called
CacheCheckKeepsLock(p) ==
    /\ pc[p] = "check"
    /\ IF arg[p] \in DOMAIN cache
       THEN /\ mu' = 0
            /\ ret' = [ret EXCEPT ![p] = cache[arg[p]]]
            /\ outcome' = [outcome EXCEPT ![p] = "hit"]
            /\ pc' = [pc EXCEPT ![p] = "done"]
            /\ UNCHANGED lookups
       ELSE /\ mu' = mu
            /\ pc' = [pc EXCEPT ![p] = "lookup"]
            /\ lookups' = [lookups EXCEPT ![arg[p]] = @ + 1]
            /\ UNCHANGED <<ret, outcome>>
    /\ UNCHANGED <<cache, arg, uname, failed, nCalls>>
    /\ UNCHANGED <<chanVars, mentionVars, sendVars, archVars>>

\* lines 33-39: the cache check under the lock, the unlock, and on a miss the
\* GetUserInfo call going out
CacheCheck(p) ==
    /\ pc[p] = "check"
    /\ mu' = 0
    /\ IF arg[p] \in DOMAIN cache
       THEN /\ ret' = [ret EXCEPT ![p] = cache[arg[p]]]
            /\ outcome' = [outcome EXCEPT ![p] = "hit"]
            /\ pc' = [pc EXCEPT ![p] = "done"]
            /\ UNCHANGED lookups
       ELSE /\ pc' = [pc EXCEPT ![p] = "lookup"]
            /\ lookups' = [lookups EXCEPT ![arg[p]] = @ + 1]
            /\ UNCHANGED <<ret, outcome>>
    /\ UNCHANGED <<cache, arg, uname, failed, nCalls>>
    /\ UNCHANGED <<chanVars, mentionVars, sendVars, archVars>>

\* the cache with the raw ID stored under itself
CachePutRaw(c, userID) ==
    [u \in DOMAIN c \cup {userID} |-> IF u = userID THEN userID ELSE c[u]]

\* mutant: the empty string is returned when the lookup fails
LookupFailReturnsEmpty(p) ==
    /\ pc[p] = "lookup"
    /\ failed' = [failed EXCEPT ![arg[p]] = @ + 1]
    /\ ret' = [ret EXCEPT ![p] = <<>>]
    /\ outcome' = [outcome EXCEPT ![p] = "failed"]
    /\ pc' = [pc EXCEPT ![p] = "done"]
    /\ UNCHANGED <<cache, mu, arg, uname, lookups, nCalls>>
    /\ UNCHANGED <<chanVars, mentionVars, sendVars, archVars>>

\* mutant: the raw ID is put into the cache when the lookup fails
LookupFailCachesID(p) ==
    /\ pc[p] = "lookup"
    /\ failed' = [failed EXCEPT ![arg[p]] = @ + 1]
    /\ cache' = CachePutRaw(cache, arg[p])
    /\ ret' = [ret EXCEPT ![p] = arg[p]]
    /\ outcome' = [outcome EXCEPT ![p] = "failed"]
    /\ pc' = [pc EXCEPT ![p] = "done"]
    /\ UNCHANGED <<mu, arg, uname, lookups, nCalls>>
    /\ UNCHANGED <<chanVars, mentionVars, sendVars, archVars>>

\* lines 39-42: GetUserInfo returns an error
LookupFail(p) ==
    /\ pc[p] = "lookup"
    /\ failed' = [failed EXCEPT ![arg[p]] = @ + 1]
    /\ ret' = [ret EXCEPT ![p] = arg[p]]
    /\ outcome' = [outcome EXCEPT ![p] = "failed"]
    /\ pc' = [pc EXCEPT ![p] = "done"]
    /\ UNCHANGED <<cache, mu, arg, uname, lookups, nCalls>>
    /\ UNCHANGED <<chanVars, mentionVars, sendVars, archVars>>

\* lines 39-53: GetUserInfo returns a user, the name is computed
LookupOK(p) ==
    /\ pc[p] = "lookup"
    /\ \E user \in Profiles(arg[p]) :
          uname' = [uname EXCEPT ![p] = DisplayNameOf(user, arg[p])]
    /\ pc' = [pc EXCEPT ![p] = "lock2"]
    /\ UNCHANGED <<cache, mu, arg, ret, outcome, lookups, failed, nCalls>>
    /\ UNCHANGED <<chanVars, mentionVars, sendVars, archVars>>

\* line 55: r.mu.Lock()
Lock2(p) ==
    /\ pc[p] = "lock2"
    /\ mu = 0
    /\ mu' = p
    /\ pc' = [pc EXCEPT ![p] = "store"]
    /\ UNCHANGED <<cache, arg, uname, ret, outcome, lookups, failed, nCalls>>
    /\ UNCHANGED <<chanVars, mentionVars, sendVars, archVars>>

\* r.cache[userID] = name
CachePut(c, userID, n) ==
    [u \in DOMAIN c \cup {userID} |-> IF u = userID THEN n ELSE c[u]]

\* mutant: the entry is stored with key and value exchanged
StoreSwapped(p) ==
    /\ pc[p] = "store"
    /\ cache' = CachePut(cache, uname[p], arg[p])
    /\ mu' = 0
    /\ ret' = [ret EXCEPT ![p] = uname[p]]
    /\ outcome' = [outcome EXCEPT ![p] = "stored"]
    /\ pc' = [pc EXCEPT ![p] = "done"]
    /\ UNCHANGED <<arg, uname, lookups, failed, nCalls>>
    /\ UNCHANGED <<chanVars, mentionVars, sendVars, archVars>>

\* mutant: the name is returned but not put into the cache
StoreNoInsert(p) ==
    /\ pc[p] = "store"
    /\ mu' = 0
    /\ ret' = [ret EXCEPT ![p] = uname[p]]
    /\ outcome' = [outcome EXCEPT ![p] = "stored"]
    /\ pc' = [pc EXCEPT ![p] = "done"]
    /\ UNCHANGED <<cache, arg, uname, lookups, failed, nCalls>>
    /\ UNCHANGED <<chanVars, mentionVars, sendVars, archVars>>

\* lines 56-59: the cache insert under the lock, the unlock, the return
Store(p) ==
    /\ pc[p] = "store"
    /\ cache' = CachePut(cache, arg[p], uname[p])
    /\ mu' = 0
    /\ ret' = [ret EXCEPT ![p] = uname[p]]
    /\ outcome' = [outcome EXCEPT ![p] = "stored"]
    /\ pc' = [pc EXCEPT ![p] = "done"]
    /\ UNCHANGED <<arg, uname, lookups, failed, nCalls>>
    /\ UNCHANGED <<chanVars, mentionVars, sendVars, archVars>>

\* the steps of a Resolve call in progress
ResolveStep(p) ==
    \/ Lock1(p)
    \/ CacheCheck(p)
    \/ LookupFail(p)
    \/ LookupOK(p)
    \/ Lock2(p)
    \/ Store(p)

(***************************************************************************)
(* ResolveMentions.                                                        *)
(***************************************************************************)
\* the last character of the longest run of [A-Z0-9] that starts at i
\* (i - 1 when the character at i is not of the class)
RECURSIVE RunEnd(_, _)
RunEnd(txt, i) ==
    IF i <= Len(txt) /\ txt[i] \in UpperLetters \cup Digits
    THEN RunEnd(txt, i + 1)
    ELSE i - 1

\* mentionRegex = `<@(U[A-Z0-9]+)>` tried at position i: the position of the
\* closing '>' of the match, 0 when there is no match at i
MatchEnd(txt, i) ==
    IF /\ i + 2 <= Len(txt)
       /\ txt[i] = "<" /\ txt[i + 1] = "@" /\ txt[i + 2] = "U"
    THEN LET e == RunEnd(txt, i + 3)
         IN  IF e >= i + 3 /\ e + 1 <= Len(txt) /\ txt[e + 1] = ">"
             THEN e + 1
             ELSE 0
    ELSE 0

\* the leftmost match starting at from or later, 0 when there is none
RECURSIVE NextMatch(_, _)
NextMatch(txt, from) ==
    IF from > Len(txt) THEN 0
    ELSE IF MatchEnd(txt, from) # 0 THEN from
    ELSE NextMatch(txt, from + 1)

\* the goroutine that calls ResolveMentions
MentionsCaller == 1

\* ReplaceAllStringFunc: copy the text up to the next match and call the
\* callback on it, which calls r.Resolve(sub[1]); with no match left, copy
\* the rest of the text and return
MentionsScan ==
    /\ mpc = "scan"
    /\ LET i == NextMatch(mtext, mpos)
       IN  IF i = 0
           THEN /\ mout' = mout \o SubSeq(mtext, mpos, Len(mtext))
                /\ mpos' = Len(mtext) + 1
                /\ mpc' = "done"
                /\ UNCHANGED userVars
           ELSE LET e == MatchEnd(mtext, i)
                IN  /\ mout' = mout \o SubSeq(mtext, mpos, i - 1)
                    /\ mpos' = e + 1
                    /\ mpc' = "resolve"
                    /\ ResolveEnter(MentionsCaller, SubSeq(mtext, i + 2, e - 1))
    /\ UNCHANGED <<mtext, mres, chanVars, sendVars, archVars>>

\* mutant: the replacement is the resolved name without the '@'
MentionsResumeNoAt ==
    /\ mpc = "resolve"
    /\ pc[MentionsCaller] = "done"
    /\ mout' = mout \o ret[MentionsCaller]
    /\ mres' = Append(mres, [id |-> arg[MentionsCaller],
                             name |-> ret[MentionsCaller],
                             outcome |-> outcome[MentionsCaller]])
    /\ mpc' = "scan"
    /\ UNCHANGED <<mtext, mpos, userVars, chanVars, sendVars, archVars>>

\* line 69: Resolve has returned, the callback returns "@" + name, which
\* replaces the match
MentionsResume ==
    /\ mpc = "resolve"
    /\ pc[MentionsCaller] = "done"
    /\ mout' = mout \o <<"@">> \o ret[MentionsCaller]
    /\ mres' = Append(mres, [id |-> arg[MentionsCaller],
                             name |-> ret[MentionsCaller],
                             outcome |-> outcome[MentionsCaller]])
    /\ mpc' = "scan"
    /\ UNCHANGED <<mtext, mpos, userVars, chanVars, sendVars, archVars>>

\* texts: concatenations of up to MaxFragments of these pieces
Fragments ==
    { <<"<", "@", "U", "1", ">">>,     \* a mention of U1
      <<"<", "@", "U", "A", ">">>,     \* a mention of UA
      <<"<", "@", "U", ">">>,          \* no character after the U
      <<"<", "@", "u", "1", ">">>,     \* lowercase
      <<"<", "@", "U", "1">>,          \* not closed
      <<"<">>, <<">">>, <<"x">> }

RECURSIVE Concat(_)
Concat(ss) == IF ss = <<>> THEN <<>> ELSE Head(ss) \o Concat(Tail(ss))

Texts == {Concat(fs) : fs \in SeqsUpTo(Fragments, MaxFragments)}

(***************************************************************************)
(* runSend: helpers.  Texts, JSON documents and paths are sequences of     *)
(* atoms: "\n" and "\r" are the line terminators, "\\" and "!" the two     *)
(* characters of the shell escape, "[", "]", "," and "B" (one block        *)
(* object) the tokens of a JSON array, "/" the path separator.             *)
(***************************************************************************)
\* bufio.Scanner with ScanLines: the lines of data after position i, cur
\* being the line read so far; a line ends at "\n", one trailing "\r" is
\* dropped from each line, a last line without "\n" counts when not empty
DropCR(line) ==
    IF Len(line) > 0 /\ line[Len(line)] = "\r"
    THEN SubSeq(line, 1, Len(line) - 1)
    ELSE line

RECURSIVE ScanFrom(_, _, _)
ScanFrom(data, i, cur) ==
    IF i > Len(data)
    THEN IF cur = <<>> THEN <<>> ELSE <<DropCR(cur)>>
    ELSE IF data[i] = "\n"
    THEN <<DropCR(cur)>> \o ScanFrom(data, i + 1, <<>>)
    ELSE ScanFrom(data, i + 1, Append(cur, data[i]))

ScanLines(data) == ScanFrom(data, 1, <<>>)

\* lines 131-137 and 163-169: the loop that joins the scanned lines
RECURSIVE JoinLoop(_, _, _)
JoinLoop(scanned, k, lines) ==
    IF k > Len(scanned) THEN lines
    ELSE JoinLoop(scanned, k + 1,
                  (IF Len(lines) > 0 THEN Append(lines, "\n") ELSE lines) \o scanned[k])

ReadAllLines(data) == JoinLoop(ScanLines(data), 1, <<>>)

\* unescapeShellChars: every backslash followed by '!' becomes '!'
RECURSIVE unescapeShellChars(_)
unescapeShellChars(t) ==
    IF t = <<>> THEN <<>>
    ELSE IF Len(t) >= 2 /\ t[1] = "\\" /\ t[2] = "!"
    THEN <<"!">> \o unescapeShellChars(SubSeq(t, 3, Len(t)))
    ELSE <<t[1]>> \o unescapeShellChars(Tail(t))

\* buildDefaultBlocks: one section block with a mrkdwn text object
buildDefaultBlocks(t) ==
    << [type |-> "section", text |-> [type |-> "mrkdwn", text |-> t]] >>

\* validate.Timestamp and validate.NormalizeTimestamp
CanonicalTimestamp == "1234567890.123456"
ValidTimestamps == {CanonicalTimestamp, "p1234567890123456"}
TimestampOK(ts) == ts \in ValidTimestamps
\* every accepted form is brought to the form with six decimals
NormalizeTimestamp(ts) == IF ts \in ValidTimestamps THEN CanonicalTimestamp ELSE ts
ErrInvalidTimestamp == <<"invalid timestamp">>

\* json.Unmarshal([]byte(blocksSource), &blocks) with blocks []interface{}:
\* white space is skipped; null gives a nil slice, an array of objects gives
\* its elements; anything else is an error
JSONSpace == {"\n", "\r", " "}
SkipSpace(src) == SelectSeq(src, LAMBDA a : a \notin JSONSpace)

IsElementList(inner) ==
    \/ inner = <<>>
    \/ /\ Len(inner) % 2 = 1
       /\ \A i \in 1..Len(inner) : inner[i] = (IF i % 2 = 1 THEN "B" ELSE ",")

ParsedBlock == [type |-> "section"]

Unmarshal(src) ==
    LET doc == SkipSpace(src)
    IN  IF doc = <<"null">> THEN [ok |-> TRUE, blocks |-> <<>>]
        ELSE IF /\ Len(doc) >= 2 /\ doc[1] = "[" /\ doc[Len(doc)] = "]"
                /\ IsElementList(SubSeq(doc, 2, Len(doc) - 1))
        THEN [ok |-> TRUE,
              blocks |-> [k \in 1..(Len(doc) - 1) \div 2 |-> ParsedBlock]]
        ELSE [ok |-> FALSE, blocks |-> <<>>]

\* mutant: the whole path is taken for the base name
BaseWholePath(path) == path

\* filepath.Base on a path without trailing separator
RECURSIVE Base(_)
Base(path) ==
    IF \E i \in 1..Len(path) : path[i] = "/"
    THEN Base(Tail(path))
    ELSE path

\* client.WrapError(operation, err)
WrapError(operation, cause) == <<operation, ": ", cause>>

ErrBlocksExclusive ==
    <<"only one of ", "--blocks", ", ", "--blocks-file", ", or ", "--blocks-stdin",
      " can be specified">>
ErrStdinConflict ==
    <<"cannot use '-' for text and ", "--blocks-stdin",
      " together; stdin can only be used for one">>
ErrReadingStdin == <<"reading stdin: ", "read error">>
ErrReadingBlocksFile == <<"reading blocks file: ", "read error">>
ErrReadingBlocksStdin == <<"reading blocks from stdin: ", "read error">>
ErrEmptyMessage ==
    <<"message text cannot be empty (or provide blocks via ", "--blocks", ", ",
      "--blocks-file", ", ", "--blocks-stdin", ", or files via ", "--file", ")">>
ErrInvalidBlocksJSON == <<"invalid blocks JSON: ", "syntax error">>
ErrClientNew == <<"no API token configured">>
\* mutant: the stat error does not name the path
ErrCannotAccessFileNoPath(path) == <<"cannot access file ", ": ", "stat error">>
ErrCannotAccessFile(path) == <<"cannot access file ">> \o path \o <<": ", "stat error">>
ErrOpeningFile(path) == <<"opening file ">> \o path \o <<": ", "open error">>

\* the calls of the platform API, by the method they reach
APIList == ListCall
APIPost == "chat.postMessage"
APIGetUploadURL == "files.getUploadURLExternal"
APIUpload == "upload"
APIComplete == "files.completeUploadExternal"
APICalls == {APIList, APIPost, APIGetUploadURL, APIUpload, APIComplete}

\* local input and file accesses
ReadStdin == "stdin"
ReadFile == "os.ReadFile"
StatFile == "os.Stat"
OpenFile == "os.Open"

Event(c, w) == [call |-> c, with |-> w]

(***************************************************************************)
(* runSend and uploadFiles.                                                *)
(***************************************************************************)
\* what the environment may hold or answer
StdinContents ==
    { <<>>, <<"h", "\n">>, <<"\n", "h">>, <<"h", "\r", "\n", "\n", "\\", "!">>,
      <<"[", "\n", "B", ",", "B", "\n", "]", "\n">>, <<"[", "]">>, <<"x">> }
FileDocs == { <<>>, <<"[", "B", "]">>, <<"null">>, <<"x">> }
SendListings ==
    { ListOK(<<[ID |-> <<"C", "2">>, Name |-> <<"c">>]>>), ListOK(<<>>), ListFailed }

\* return err
Return(err) ==
    /\ serr' = err
    /\ spc' = "done"

\* a count that leaves --blocks-stdin out
blocksOptionsCountNoStdin(o) ==
    (IF o.blocksJSON # <<>> THEN 1 ELSE 0)
    + (IF o.blocksFile # <<>> THEN 1 ELSE 0)

blocksOptionsCount(o) ==
    (IF o.blocksJSON # <<>> THEN 1 ELSE 0)
    + (IF o.blocksFile # <<>> THEN 1 ELSE 0)
    + (IF o.blocksStdin THEN 1 ELSE 0)

\* mutant: the blocks options are counted before the timestamp is validated
SendValidateCountFirst ==
    /\ spc = "validate"
    /\ IF blocksOptionsCount(opts) > 1
       THEN Return(ErrBlocksExclusive) /\ UNCHANGED opts
       ELSE IF opts.threadTS # "" /\ ~TimestampOK(opts.threadTS)
       THEN Return(ErrInvalidTimestamp) /\ UNCHANGED opts
       ELSE /\ opts' = [opts EXCEPT !.threadTS =
                           IF @ # "" THEN NormalizeTimestamp(@) ELSE @]
            /\ IF text = <<"-">>
               THEN IF opts.blocksStdin
                    THEN Return(ErrStdinConflict)
                    ELSE spc' = "readtext" /\ UNCHANGED serr
               ELSE spc' = "source" /\ UNCHANGED serr
    /\ UNCHANGED <<sChannel, sText, text, blocksSource, channelID, uploadedFiles,
                   slog, sout>>
    /\ UNCHANGED <<chanVars, userVars, mentionVars, archVars>>

\* lines 98-125: the thread timestamp, the count of blocks options, and the
\* test that stdin is not asked for twice
SendValidate ==
    /\ spc = "validate"
    /\ IF opts.threadTS # "" /\ ~TimestampOK(opts.threadTS)
       THEN Return(ErrInvalidTimestamp) /\ UNCHANGED opts
       ELSE /\ opts' = [opts EXCEPT !.threadTS =
                           IF @ # "" THEN NormalizeTimestamp(@) ELSE @]
            /\ IF blocksOptionsCount(opts) > 1
               THEN Return(ErrBlocksExclusive)
               ELSE IF text = <<"-">>
               THEN IF opts.blocksStdin
                    THEN Return(ErrStdinConflict)
                    ELSE spc' = "readtext" /\ UNCHANGED serr
               ELSE spc' = "source" /\ UNCHANGED serr
    /\ UNCHANGED <<sChannel, sText, text, blocksSource, channelID, uploadedFiles,
                   slog, sout>>
    /\ UNCHANGED <<chanVars, userVars, mentionVars, archVars>>

\* lines 126-142: the text is read from stdin
SendReadText ==
    /\ spc = "readtext"
    /\ \/ \E data \in StdinContents :
             /\ slog' = Append(slog, Event(ReadStdin, data))
             /\ text' = ReadAllLines(data)
             /\ spc' = "source"
             /\ UNCHANGED serr
       \/ /\ slog' = Append(slog, Event(ReadStdin, <<>>))
          /\ Return(ErrReadingStdin)
          /\ UNCHANGED text
    /\ UNCHANGED <<sChannel, sText, opts, blocksSource, channelID, uploadedFiles, sout>>
    /\ UNCHANGED <<chanVars, userVars, mentionVars, archVars>>

\* lines 148-174: the blocks source as the environment may deliver it
Source(ok, data, err, events) ==
    [ok |-> ok, data |-> data, err |-> err, events |-> events]

SourceOutcomes(o) ==
    IF o.blocksJSON # <<>>
    THEN {Source(TRUE, o.blocksJSON, NoError, <<>>)}
    ELSE IF o.blocksFile # <<>>
    THEN {Source(FALSE, <<>>, ErrReadingBlocksFile, <<Event(ReadFile, o.blocksFile)>>)}
         \cup {Source(TRUE, d, NoError, <<Event(ReadFile, o.blocksFile)>>) : d \in FileDocs}
    ELSE IF o.blocksStdin
    THEN {Source(FALSE, <<>>, ErrReadingBlocksStdin, <<Event(ReadStdin, <<>>)>>)}
         \cup {Source(TRUE, ReadAllLines(d), NoError, <<Event(ReadStdin, d)>>) :
                  d \in StdinContents}
    ELSE {Source(TRUE, <<>>, NoError, <<>>)}

\* lines 144-181: the text is unescaped, the blocks source is read, and the
\* message is tested for content
SendBlocksSource ==
    /\ spc = "source"
    /\ text' = unescapeShellChars(text)
    /\ \E src \in SourceOutcomes(opts) :
          /\ slog' = slog \o src.events
          /\ IF ~src.ok
             THEN Return(src.err) /\ UNCHANGED blocksSource
             ELSE /\ blocksSource' = src.data
                  /\ LET hasBlocks == src.data # <<>>
                         hasFiles == Len(opts.files) > 0
                     IN  IF text' = <<>> /\ ~hasBlocks /\ ~hasFiles
                         THEN Return(ErrEmptyMessage)
                         ELSE spc' = "resolve" /\ UNCHANGED serr
    /\ UNCHANGED <<sChannel, sText, opts, channelID, uploadedFiles, sout>>
    /\ UNCHANGED <<chanVars, userVars, mentionVars, archVars>>

\* mutant: the message is posted also when files were requested
SendResolveAlwaysPost ==
    /\ spc = "resolve"
    /\ \/ Return(ErrClientNew) /\ UNCHANGED <<slog, channelID>>
       \/ \E lst \in SendListings :
             LET r == ResolveChannel(sChannel, lst)
             IN  /\ slog' = slog \o [k \in 1..Len(r.calls) |-> Event(r.calls[k], <<>>)]
                 /\ IF r.err # NoError
                    THEN Return(r.err) /\ UNCHANGED channelID
                    ELSE /\ channelID' = r.id
                         /\ spc' = "post"
                         /\ UNCHANGED serr
    /\ UNCHANGED <<sChannel, sText, opts, text, blocksSource, uploadedFiles, sout>>
    /\ UNCHANGED <<chanVars, userVars, mentionVars, archVars>>

\* lines 183-200: the client is made when none was given, and the channel
\* is resolved
SendResolve ==
    /\ spc = "resolve"
    /\ \/ Return(ErrClientNew) /\ UNCHANGED <<slog, channelID>>
       \/ \E lst \in SendListings :
             LET r == ResolveChannel(sChannel, lst)
             IN  /\ slog' = slog \o [k \in 1..Len(r.calls) |-> Event(r.calls[k], <<>>)]
                 /\ IF r.err # NoError
                    THEN Return(r.err) /\ UNCHANGED channelID
                    ELSE /\ channelID' = r.id
                         /\ spc' = IF Len(opts.files) > 0 THEN "upload" ELSE "post"
                         /\ UNCHANGED serr
    /\ UNCHANGED <<sChannel, sText, opts, text, blocksSource, uploadedFiles, sout>>
    /\ UNCHANGED <<chanVars, userVars, mentionVars, archVars>>

\* mutant: the default block is built in simple mode too
SendPostIgnoresSimple ==
    /\ spc = "post"
    /\ LET parsed == IF blocksSource # <<>>
                     THEN Unmarshal(blocksSource)
                     ELSE [ok |-> TRUE, blocks |-> <<>>]
           blocks == IF blocksSource # <<>> THEN parsed.blocks
                     ELSE IF text # <<>> THEN buildDefaultBlocks(text)
                     ELSE <<>>
       IN  IF ~parsed.ok
           THEN Return(ErrInvalidBlocksJSON) /\ UNCHANGED <<slog, sout>>
           ELSE /\ slog' = Append(slog, Event(APIPost,
                              [channel |-> channelID, text |-> text,
                               threadTS |-> opts.threadTS, blocks |-> blocks,
                               unfurl |-> ~opts.noUnfurl]))
                /\ \/ Return(WrapError("send message", "api error")) /\ UNCHANGED sout
                   \/ Return(NoError) /\ sout' = Append(sout, "Message sent")
    /\ UNCHANGED <<sChannel, sText, opts, text, blocksSource, channelID, uploadedFiles>>
    /\ UNCHANGED <<chanVars, userVars, mentionVars, archVars>>

\* lines 202-223: the blocks are parsed or the default block is built, and
\* the message is sent
SendPost ==
    /\ spc = "post"
    /\ LET parsed == IF blocksSource # <<>>
                     THEN Unmarshal(blocksSource)
                     ELSE [ok |-> TRUE, blocks |-> <<>>]
           blocks == IF blocksSource # <<>> THEN parsed.blocks
                     ELSE IF ~opts.simple /\ text # <<>> THEN buildDefaultBlocks(text)
                     ELSE <<>>
       IN  IF ~parsed.ok
           THEN Return(ErrInvalidBlocksJSON) /\ UNCHANGED <<slog, sout>>
           ELSE /\ slog' = Append(slog, Event(APIPost,
                              [channel |-> channelID, text |-> text,
                               threadTS |-> opts.threadTS, blocks |-> blocks,
                               unfurl |-> ~opts.noUnfurl]))
                /\ \/ Return(WrapError("send message", "api error")) /\ UNCHANGED sout
                   \/ Return(NoError) /\ sout' = Append(sout, "Message sent")
    /\ UNCHANGED <<sChannel, sText, opts, text, blocksSource, channelID, uploadedFiles>>
    /\ UNCHANGED <<chanVars, userVars, mentionVars, archVars>>

\* the file IDs the platform hands out: one new ID for each upload slot
SlotsRequested == Len(SelectSeq(slog, LAMBDA e : e.call = APIGetUploadURL))
UploadSlot(n) == [UploadURL |-> <<"url", n>>, FileID |-> <<"F", n>>]

\* lines 228-264: one turn of the loop of uploadFiles, for the next file
UploadFile ==
    /\ spc = "upload"
    /\ Len(uploadedFiles) < Len(opts.files)
    /\ LET filePath == opts.files[Len(uploadedFiles) + 1]
           filename == Base(filePath)
           uploadResp == UploadSlot(SlotsRequested + 1)
           title == IF opts.fileTitle = <<>> THEN filename ELSE opts.fileTitle
           stat == Event(StatFile, filePath)
           slot == Event(APIGetUploadURL, filename)
           open == Event(OpenFile, filePath)
           xfer == Event(APIUpload, uploadResp.UploadURL)
       IN  \/ /\ slog' = slog \o <<stat>>
              /\ Return(ErrCannotAccessFile(filePath))
              /\ UNCHANGED <<uploadedFiles, sout>>
           \/ /\ slog' = slog \o <<stat, slot>>
              /\ sout' = Append(sout, "Uploading")
              /\ Return(WrapError("get upload URL", "api error"))
              /\ UNCHANGED uploadedFiles
           \/ /\ slog' = slog \o <<stat, slot, open>>
              /\ sout' = Append(sout, "Uploading")
              /\ Return(ErrOpeningFile(filePath))
              /\ UNCHANGED uploadedFiles
           \/ /\ slog' = slog \o <<stat, slot, open, xfer>>
              /\ sout' = Append(sout, "Uploading")
              /\ Return(WrapError("upload file", "transfer error"))
              /\ UNCHANGED uploadedFiles
           \/ /\ slog' = slog \o <<stat, slot, open, xfer>>
              /\ sout' = Append(sout, "Uploading")
              /\ uploadedFiles' = Append(uploadedFiles,
                                         [ID |-> uploadResp.FileID, Title |-> title])
              /\ UNCHANGED <<spc, serr>>
    /\ UNCHANGED <<sChannel, sText, opts, text, blocksSource, channelID>>
    /\ UNCHANGED <<chanVars, userVars, mentionVars, archVars>>

\* mutant: the upload is completed as soon as one file is uploaded
UploadCompleteEarly ==
    /\ spc = "upload"
    /\ Len(uploadedFiles) >= 1
    /\ slog' = Append(slog, Event(APIComplete,
                  [files |-> uploadedFiles, channel |-> channelID,
                   threadTS |-> opts.threadTS, comment |-> text]))
    /\ \/ Return(WrapError("complete upload", "api error")) /\ UNCHANGED sout
       \/ /\ Return(NoError)
          /\ sout' = Append(sout, IF Len(uploadedFiles) = 1
                                  THEN "File uploaded" ELSE "files uploaded")
    /\ UNCHANGED <<sChannel, sText, opts, text, blocksSource, channelID, uploadedFiles>>
    /\ UNCHANGED <<chanVars, userVars, mentionVars, archVars>>

\* mutant: success is printed whatever the finalize call returned
UploadCompleteReportsSuccess ==
    /\ spc = "upload"
    /\ Len(uploadedFiles) = Len(opts.files)
    /\ slog' = Append(slog, Event(APIComplete,
                  [files |-> uploadedFiles, channel |-> channelID,
                   threadTS |-> opts.threadTS, comment |-> text]))
    /\ sout' = Append(sout, IF Len(uploadedFiles) = 1
                            THEN "File uploaded" ELSE "files uploaded")
    /\ \/ Return(WrapError("complete upload", "api error"))
       \/ Return(NoError)
    /\ UNCHANGED <<sChannel, sText, opts, text, blocksSource, channelID, uploadedFiles>>
    /\ UNCHANGED <<chanVars, userVars, mentionVars, archVars>>

\* lines 266-278: the upload is completed and shared
UploadComplete ==
    /\ spc = "upload"
    /\ Len(uploadedFiles) = Len(opts.files)
    /\ slog' = Append(slog, Event(APIComplete,
                  [files |-> uploadedFiles, channel |-> channelID,
                   threadTS |-> opts.threadTS, comment |-> text]))
    /\ \/ Return(WrapError("complete upload", "api error")) /\ UNCHANGED sout
       \/ /\ Return(NoError)
          /\ sout' = Append(sout, IF Len(uploadedFiles) = 1
                                  THEN "File uploaded" ELSE "files uploaded")
    /\ UNCHANGED <<sChannel, sText, opts, text, blocksSource, channelID, uploadedFiles>>
    /\ UNCHANGED <<chanVars, userVars, mentionVars, archVars>>

\* the arguments of runSend
SendChannels == { <<"C", "1">>, <<"#", "c">>, <<>> }
SendTexts == { <<>>, <<"-">>, <<"h">>, <<"\\", "!">> }
InlineDocs == { <<"[", "B", "]">>, <<"[", "]">>, <<"x">> }
FilePaths == { <<"a.txt">>, <<"d", "/", "b.txt">> }
SendOptions ==
    [ threadTS : {"", "not-a-timestamp"} \cup ValidTimestamps,
      blocksJSON : {<<>>} \cup InlineDocs,
      blocksFile : {<<>>, <<"b.json">>},
      blocksStdin : BOOLEAN,
      simple : BOOLEAN,
      noUnfurl : BOOLEAN,
      files : SeqsUpTo(FilePaths, MaxFiles),
      fileTitle : {<<>>, <<"T">>} ]

(***************************************************************************)
(* runArchive.                                                             *)
(***************************************************************************)
\* strings.TrimSpace
Spaces == {" ", "\t", "\n", "\r"}

RECURSIVE TrimLeft(_)
TrimLeft(s) == IF s # <<>> /\ Head(s) \in Spaces THEN TrimLeft(Tail(s)) ELSE s

RECURSIVE TrimRight(_)
TrimRight(s) ==
    IF s # <<>> /\ s[Len(s)] \in Spaces THEN TrimRight(SubSeq(s, 1, Len(s) - 1)) ELSE s

TrimSpace(s) == TrimRight(TrimLeft(s))

APIArchive == "conversations.archive"

\* what stdin may hold when the confirmation is asked for
ConfirmStdin ==
    { <<>>, <<"\n">>, <<"y", "\n">>, <<"y">>, <<"Y", "E", "S", "\n">>,
      <<" ", "y", " ", "\r", "\n">>, <<"n", "\n">>, <<"y", "e", "\n">>,
      <<"n", "\n", "y", "\n">>, <<"Y", "\n">>, <<"y", "e", "s">>, <<"\n", "y", "\n">> }

\* return err
ArchReturn(err) ==
    /\ aerr' = err
    /\ apc' = "done"

\* lines 40-57: the confirmation, unless --force
ArchConfirm ==
    /\ apc = "confirm"
    /\ IF aForce
       THEN /\ apc' = "resolve"
            /\ UNCHANGED <<aerr, alog, aout>>
       ELSE \E data \in ConfirmStdin :
               LET prompt == <<"About to archive channel", "Are you sure? [y/N]: ">>
                   scanned == ScanLines(data)
               IN  /\ alog' = Append(alog, Event(ReadStdin, data))
                   /\ IF scanned # <<>>       \* scanner.Scan() is true
                      THEN LET confirm == TrimSpace(ToLower(scanned[1]))
                           IN  IF confirm # <<"y">> /\ confirm # <<"y", "e", "s">>
                               THEN /\ aout' = aout \o prompt \o <<"Cancelled.">>
                                    /\ ArchReturn(NoError)
                               ELSE /\ aout' = aout \o prompt
                                    /\ apc' = "resolve"
                                    /\ UNCHANGED aerr
                      ELSE /\ aout' = aout \o prompt
                           /\ apc' = "resolve"
                           /\ UNCHANGED aerr
    /\ UNCHANGED <<aChannel, aForce, aChannelID>>
    /\ UNCHANGED <<chanVars, userVars, mentionVars, sendVars>>

\* lines 59-71: the client is made when none was given, and the channel is
\* resolved
ArchResolve ==
    /\ apc = "resolve"
    /\ \/ ArchReturn(ErrClientNew) /\ UNCHANGED <<alog, aChannelID>>
       \/ \E lst \in SendListings :
             LET r == ResolveChannel(aChannel, lst)
             IN  /\ alog' = alog \o [k \in 1..Len(r.calls) |-> Event(r.calls[k], <<>>)]
                 /\ IF r.err # NoError
                    THEN ArchReturn(r.err) /\ UNCHANGED aChannelID
                    ELSE /\ aChannelID' = r.id
                         /\ apc' = "archive"
                         /\ UNCHANGED aerr
    /\ UNCHANGED <<aChannel, aForce, aout>>
    /\ UNCHANGED <<chanVars, userVars, mentionVars, sendVars>>

\* lines 73-78: the channel is archived
ArchArchive ==
    /\ apc = "archive"
    /\ alog' = Append(alog, Event(APIArchive, aChannelID))
    /\ \/ ArchReturn(WrapError("archive channel", "api error")) /\ UNCHANGED aout
       \/ ArchReturn(NoError) /\ aout' = Append(aout, "Archived channel")
    /\ UNCHANGED <<aChannel, aForce, aChannelID>>
    /\ UNCHANGED <<chanVars, userVars, mentionVars, sendVars>>

\* runArchive at rest (specifications of the other components)
ArchIdle ==
    /\ aChannel = <<>>
    /\ aForce = FALSE
    /\ aChannelID = <<>>
    /\ apc = "off"
    /\ aerr = NoError
    /\ alog = <<>>
    /\ aout = <<>>

\* runArchive(aChannel, opts, c) is called
ArchInit ==
    /\ aChannel \in SendChannels
    /\ aForce \in BOOLEAN
    /\ aChannelID = <<>>
    /\ apc = "confirm"
    /\ aerr = NoError
    /\ alog = <<>>
    /\ aout = <<>>

(***************************************************************************)
(* Initial states and specifications.  Each specification runs one         *)
(* component; the others stay at rest.                                     *)
(***************************************************************************)
\* the channel resolver at rest (specifications of the other components)
ChanIdle ==
    /\ token = <<>>
    /\ listing = ListFailed
    /\ cpc = "off"
    /\ chanRet = NoRet
    /\ chanCalls = <<>>

\* NewUserResolver, and no call made yet
UserInit ==
    /\ cache = <<>>
    /\ mu = 0
    /\ pc = [p \in Callers |-> "idle"]
    /\ arg = [p \in Callers |-> EmptyID]
    /\ uname = [p \in Callers |-> <<>>]
    /\ ret = [p \in Callers |-> <<>>]
    /\ outcome = [p \in Callers |-> "none"]
    /\ lookups = [u \in AllIDs |-> 0]
    /\ failed = [u \in AllIDs |-> 0]
    /\ nCalls = 0

UserIdle == UserInit

\* ResolveMentions at rest (specifications of the other components)
MentionsIdle ==
    /\ mtext = <<>>
    /\ mpc = "off"
    /\ mpos = 1
    /\ mout = <<>>
    /\ mres = <<>>

\* runSend at rest (specifications of the other components)
SendIdle ==
    /\ sChannel = <<>>
    /\ sText = <<>>
    /\ opts = [threadTS |-> "", blocksJSON |-> <<>>, blocksFile |-> <<>>,
               blocksStdin |-> FALSE, simple |-> FALSE, noUnfurl |-> FALSE,
               files |-> <<>>, fileTitle |-> <<>>]
    /\ text = <<>>
    /\ blocksSource = <<>>
    /\ channelID = <<>>
    /\ uploadedFiles = <<>>
    /\ spc = "off"
    /\ serr = NoError
    /\ slog = <<>>
    /\ sout = <<>>

\* runSend(sChannel, sText, opts, c) is called
SendInit ==
    /\ sChannel \in SendChannels
    /\ sText \in SendTexts
    /\ opts \in SendOptions
    /\ text = sText
    /\ blocksSource = <<>>
    /\ channelID = <<>>
    /\ uploadedFiles = <<>>
    /\ spc = "validate"
    /\ serr = NoError
    /\ slog = <<>>
    /\ sout = <<>>

InitSend == SendInit /\ ChanIdle /\ UserInit /\ MentionsIdle /\ ArchIdle

SendNext ==
    \/ SendValidate
    \/ SendReadText
    \/ SendBlocksSource
    \/ SendResolve
    \/ SendPost
    \/ UploadFile
    \/ UploadComplete

SpecSend == InitSend /\ [][SendNext]_vars

InitArchive == ArchInit /\ ChanIdle /\ UserInit /\ MentionsIdle /\ SendIdle

ArchNext ==
    \/ ArchConfirm
    \/ ArchResolve
    \/ ArchArchive

SpecArchive == InitArchive /\ [][ArchNext]_vars

ChanInit ==
    /\ token \in Tokens
    /\ listing \in Listings
    /\ cpc = "start"
    /\ chanRet = NoRet
    /\ chanCalls = <<>>

\* one ResolveChannel(token) call, start to return
DoResolveChannel ==
    /\ cpc = "start"
    /\ LET r == ResolveChannel(token, listing)
       IN  /\ chanRet' = [id |-> r.id, err |-> r.err]
           /\ chanCalls' = chanCalls \o r.calls
    /\ cpc' = "done"
    /\ UNCHANGED <<token, listing, userVars, mentionVars, sendVars, archVars>>

ChanNext == DoResolveChannel

InitChannel == ChanInit /\ UserIdle /\ MentionsIdle /\ SendIdle /\ ArchIdle

SpecChannel == InitChannel /\ [][ChanNext]_vars

\* ResolveChannel(token) is called again on the same client, after the
\* channels of the workspace may have changed
ResolveChannelAgain ==
    /\ cpc = "done"
    /\ Len(chanCalls) < MaxListingCalls
    /\ listing' \in Listings
    /\ cpc' = "start"
    /\ chanRet' = NoRet
    /\ UNCHANGED <<token, chanCalls, userVars, mentionVars, sendVars, archVars>>

ChanRepeatNext ==
    \/ DoResolveChannel
    \/ ResolveChannelAgain

SpecChannelRepeat == InitChannel /\ [][ChanRepeatNext]_vars

\* callers sharing one resolver, each making Resolve calls one after another
UserNext ==
    \E p \in Callers :
        \/ \E u \in AllIDs : ResolveCall(p, u)
        \/ ResolveStep(p)

InitUser == UserInit /\ ChanIdle /\ MentionsIdle /\ SendIdle /\ ArchIdle

SpecUser == InitUser /\ [][UserNext]_vars

\* the scheduling of the callers: a call in progress goes on, a lookup in
\* flight is answered, and a caller waiting for the lock gets it when the
\* lock is free again and again (sync.Mutex hands the lock to a waiter that
\* has waited long)
UserFairness ==
    \A p \in Callers :
        /\ SF_vars(Lock1(p))
        /\ SF_vars(Lock2(p))
        /\ WF_vars(CacheCheck(p))
        /\ WF_vars(LookupFail(p) \/ LookupOK(p))
        /\ WF_vars(Store(p))

\* the callers contending for one user ID: the calls that meet at the lock
\* and at the same cache entry
ContendedID == <<"U", "A">>

UserFairNext ==
    \E p \in Callers :
        \/ ResolveCall(p, ContendedID)
        \/ ResolveStep(p)

SpecUserFair == InitUser /\ [][UserFairNext]_vars /\ UserFairness

\* one caller making Resolve calls one after another
UserSeqNext ==
    \/ \E u \in AllIDs : ResolveCall(1, u)
    \/ ResolveStep(1)

SpecUserSeq == InitUser /\ [][UserSeqNext]_vars

MentionsInit ==
    /\ mtext \in Texts
    /\ mpc = "scan"
    /\ mpos = 1
    /\ mout = <<>>
    /\ mres = <<>>

InitMentions == MentionsInit /\ UserInit /\ ChanIdle /\ SendIdle /\ ArchIdle

\* one ResolveMentions(mtext) call on a fresh resolver
MentionsNext ==
    \/ MentionsScan
    \/ MentionsResume
    \/ ResolveStep(MentionsCaller)

SpecMentions == InitMentions /\ [][MentionsNext]_vars

(***************************************************************************)
(* Claims about the channel resolver.                                      *)
(***************************************************************************)
\* the ChannelID shape, as the specification words it
ChannelIDShape(s) ==
    /\ Len(s) >= 2
    /\ s[1] \in {"C", "G", "D"}
    /\ \A i \in 2..Len(s) : s[i] \in UpperLetters \cup Digits
    /\ \E i \in 2..Len(s) : s[i] \in Digits

\* the token with one leading '#' removed
StripOneHash(s) == IF s # <<>> /\ Head(s) = "#" THEN SubSeq(s, 2, Len(s)) ELSE s

SameNameIgnoringCase(a, b) == ToLower(a) = ToLower(b)

\* C1: IsChannelID(s) is true exactly when s has length >= 2, starts with C, G
\* or D, and the rest is made of uppercase letters and digits with at least
\* one digit.
C1_IsChannelIDShape == IsChannelID(token) <=> ChannelIDShape(token)

C1_Witness ==
    /\ cpc = "done"
    /\ token = <<"G", "Z", "1">>
    /\ IsChannelID(token)
    /\ chanRet.id = token

\* C2: a token that is ID-shaped once one leading '#' is stripped is returned
\* (stripped) with no error and without any API call.
C2_IDReturnedWithoutCall ==
    (cpc = "done" /\ ChannelIDShape(StripOneHash(token)))
        => /\ chanRet = [id |-> StripOneHash(token), err |-> NoError]
           /\ chanCalls = <<>>

C2_Witness ==
    /\ cpc = "done"
    /\ token = <<"#", "D", "1">>
    /\ chanRet = [id |-> <<"D", "1">>, err |-> NoError]
    /\ listing.ok /\ listing.channels # <<>>

\* the outcome C3 asks of a name lookup of name n against a successful listing
NameOutcome(n) ==
    IF \E i \in 1..Len(listing.channels) :
           SameNameIgnoringCase(listing.channels[i].Name, n)
    THEN /\ chanRet.err = NoError
         /\ \E i \in 1..Len(listing.channels) :
               /\ listing.channels[i].ID = chanRet.id
               /\ SameNameIgnoringCase(listing.channels[i].Name, n)
    ELSE /\ chanRet.err # NoError
         /\ chanRet.id = <<>>
         /\ "slck channels list" \in Range(chanRet.err)

NameLookupCase ==
    /\ cpc = "done"
    /\ StripOneHash(token) # <<>>
    /\ ~ChannelIDShape(StripOneHash(token))
    /\ listing.ok

\* C3 as stated: for a non-empty, not ID-shaped token and a successful
\* listing, the result is the ID of a listed channel whose name equals the
\* token with its leading '#' stripped, ignoring case, when there is one, and
\* a not-found error naming the listing command otherwise.
C3_Original == NameLookupCase => NameOutcome(StripOneHash(token))

\* C3 amended: the name that is matched is the token with up to two leading
\* '#' stripped (one by ResolveChannel, one more by lookupChannelByName).
C3_NameLookup == NameLookupCase => NameOutcome(StripOneHash(StripOneHash(token)))

C3_Witness ==
    /\ cpc = "done"
    /\ token = <<"#", "#", "G">>
    /\ listing = ListOK(<<[ID |-> <<"G", "3">>, Name |-> <<"z">>],
                          [ID |-> <<"C", "4">>, Name |-> <<"G">>]>>)
    /\ chanRet = [id |-> <<"C", "4">>, err |-> NoError]
    /\ chanCalls = <<ListCall>>

\* C4: the tokens "" and "#" fail with the empty-identifier error and no
\* listing call.
C4_EmptyToken ==
    (cpc = "done" /\ token \in {<<>>, <<"#">>})
        => /\ chanRet = [id |-> <<>>, err |-> <<"channel cannot be empty">>]
           /\ chanCalls = <<>>

C4_Witness ==
    /\ cpc = "done"
    /\ token = <<"#">>
    /\ chanRet.err = ErrChannelEmpty
    /\ listing.ok /\ listing.channels # <<>>

(***************************************************************************)
(* Claims about the user resolver.                                         *)
(***************************************************************************)
\* C5: Resolve never fails outward: every call that has returned took one of
\* the four exit paths and returned a string; for the empty user ID it
\* returns the empty string and no lookup is ever issued for it; a call whose
\* lookup failed returns its argument unchanged.
C5_ResolveNeverFails ==
    /\ lookups[EmptyID] = 0
    /\ \A p \in Callers :
          pc[p] = "done" =>
              /\ outcome[p] \in {"empty", "hit", "failed", "stored"}
              /\ arg[p] = EmptyID => (ret[p] = <<>> /\ outcome[p] = "empty")
              /\ outcome[p] = "failed" => ret[p] = arg[p]

C5_Witness ==
    /\ pc[1] = "done" /\ arg[1] = <<"U", "1">>
    /\ outcome[1] = "failed" /\ ret[1] = <<"U", "1">>
    /\ pc[2] = "done" /\ arg[2] = EmptyID /\ ret[2] = <<>>
    /\ lookups[<<"U", "1">>] = 1

\* C6 as stated: repeated Resolve calls for one user ID on one resolver issue
\* at most one lookup in total.
C6_Original == \A u \in UserIDs : lookups[u] <= 1

\* C6 amended: repeated (sequential) Resolve calls for one user ID issue at
\* most one lookup that does not fail: once a lookup has succeeded the name
\* is cached and every later call is a cache hit; a failed lookup caches
\* nothing, so the next call looks up again.
C6_OneSuccessfulLookup ==
    \A u \in UserIDs :
        /\ lookups[u] <= failed[u] + 1
        /\ u \in DOMAIN cache => lookups[u] = failed[u] + 1

C6_Witness ==
    /\ lookups[<<"U", "1">>] = 2
    /\ failed[<<"U", "1">>] = 1
    /\ <<"U", "1">> \in DOMAIN cache
    /\ nCalls = 3
    /\ pc[1] = "done" /\ outcome[1] = "hit" /\ arg[1] = <<"U", "1">>

(***************************************************************************)
(* Claims about ResolveMentions.                                           *)
(***************************************************************************)
\* mtext[i..j] is a mention markup: "<@U", one or more of [A-Z0-9], ">"
IsMention(i, j) ==
    /\ j >= i + 4 /\ j <= Len(mtext)
    /\ mtext[i] = "<" /\ mtext[i + 1] = "@" /\ mtext[i + 2] = "U"
    /\ \A k \in (i + 3)..(j - 1) : mtext[k] \in UpperLetters \cup Digits
    /\ mtext[j] = ">"

MentionAt(i) == \E j \in i..Len(mtext) : IsMention(i, j)
MentionEnd(i) == CHOOSE j \in i..Len(mtext) : IsMention(i, j)

\* the user IDs of the mentions of mtext from position i on, left to right
RECURSIVE MentionedFrom(_)
MentionedFrom(i) ==
    IF i > Len(mtext) THEN <<>>
    ELSE IF MentionAt(i)
    THEN <<SubSeq(mtext, i + 2, MentionEnd(i) - 1)>> \o MentionedFrom(MentionEnd(i) + 1)
    ELSE MentionedFrom(i + 1)

\* mtext from position i on with its k-th and later mentions replaced by '@'
\* and the name the k-th and later Resolve calls returned
RECURSIVE RewrittenFrom(_, _)
RewrittenFrom(i, k) ==
    IF i > Len(mtext) THEN <<>>
    ELSE IF MentionAt(i)
    THEN <<"@">> \o (IF k <= Len(mres) THEN mres[k].name ELSE <<"?">>)
                 \o RewrittenFrom(MentionEnd(i) + 1, k + 1)
    ELSE <<mtext[i]>> \o RewrittenFrom(i + 1, k)

\* C7: ResolveMentions replaces every <@USERID> by '@' and what Resolve
\* returned for that USERID, each occurrence by its own Resolve call, and
\* leaves the other text as it is; an ID whose lookup failed becomes '@' and
\* the raw ID; a text without mention markup is returned unchanged.
C7_ResolveMentions ==
    mpc = "done" =>
        /\ [k \in 1..Len(mres) |-> mres[k].id] = MentionedFrom(1)
        /\ mout = RewrittenFrom(1, 1)
        /\ \A k \in 1..Len(mres) : mres[k].outcome = "failed" => mres[k].name = mres[k].id
        /\ MentionedFrom(1) = <<>> => mout = mtext

C7_Witness ==
    /\ mpc = "done"
    /\ mtext = <<"<", "<", "@", "U", "1", ">", "<", "@", "U", "1", ">">>
    /\ mres = << [id |-> <<"U", "1">>, name |-> <<"U", "1">>, outcome |-> "failed"],
                 [id |-> <<"U", "1">>, name |-> <<"b">>, outcome |-> "stored"] >>
    /\ mout = <<"<", "@", "U", "1", "@", "b">>


(***************************************************************************)
(* Claims about runSend.                                                   *)
(***************************************************************************)
BlocksOptionsSet(o) ==
    {k \in {"--blocks", "--blocks-file", "--blocks-stdin"} :
        \/ k = "--blocks" /\ o.blocksJSON # <<>>
        \/ k = "--blocks-file" /\ o.blocksFile # <<>>
        \/ k = "--blocks-stdin" /\ o.blocksStdin}

NamesAllThreeOptions(err) ==
    {"--blocks", "--blocks-file", "--blocks-stdin"} \subseteq Range(err)

ThreadTSAcceptable == opts.threadTS = "" \/ TimestampOK(opts.threadTS)

\* C8 as stated: once runSend has made its first tests, a call with more than
\* one blocks option set has failed with an error naming the three options,
\* and nothing was read and no API call was made.
C8_Original ==
    (spc # "validate" /\ Cardinality(BlocksOptionsSet(opts)) > 1)
        => /\ spc = "done"
           /\ NamesAllThreeOptions(serr)
           /\ slog = <<>>

\* C8: when the thread timestamp is absent or valid, a call with more than
\* one blocks option set fails with an error naming the three options
\* (--blocks, --blocks-file, --blocks-stdin), and nothing is read and no API
\* call is made; with an invalid thread timestamp the call fails too, with
\* nothing read and no API call.
C8_BlocksOptionsExclusive ==
    (spc # "validate" /\ Cardinality(BlocksOptionsSet(opts)) > 1)
        => /\ spc = "done"
           /\ serr # NoError
           /\ slog = <<>>
           /\ ThreadTSAcceptable => NamesAllThreeOptions(serr)

C8_Witness ==
    /\ spc = "done"
    /\ Cardinality(BlocksOptionsSet(opts)) = 2
    /\ opts.blocksStdin
    /\ opts.threadTS = CanonicalTimestamp
    /\ NamesAllThreeOptions(serr)
    /\ slog = <<>>

Submissions == SelectSeq(slog, LAMBDA e : e.call \in {APIPost, APIComplete})

HasContent(e) ==
    IF e.call = APIPost
    THEN e.with.text # <<>> \/ e.with.blocks # <<>>
    ELSE e.with.comment # <<>> \/ e.with.files # <<>>

\* C9: every submission of runSend (a message sent, an upload completed)
\* carries non-empty text, a non-empty blocks array or at least one file;
\* and when runSend has ended with empty text, no blocks and no files, it
\* has ended with the empty-message error and has submitted nothing.
C9_EverySubmissionHasContent ==
    /\ \A k \in 1..Len(Submissions) : HasContent(Submissions[k])
    /\ (spc \in {"resolve", "post", "upload", "done"}
        /\ serr \notin {ErrReadingBlocksFile, ErrReadingBlocksStdin, ErrBlocksExclusive,
                        ErrInvalidTimestamp, ErrStdinConflict, ErrReadingStdin}
        /\ text = <<>> /\ blocksSource = <<>> /\ opts.files = <<>>)
           => (spc = "done" /\ serr = ErrEmptyMessage /\ Submissions = <<>>)

Deliveries == SelectSeq(slog, LAMBDA e : e.call \in {APIPost, APIUpload, APIComplete})

MalformedBlocks == blocksSource # <<>> /\ ~Unmarshal(blocksSource).ok

\* C10: when the content of the active blocks source is malformed JSON,
\* runSend delivers nothing (no message sent, no file transferred, no upload
\* completed) and does not end without an error, whatever the text and the
\* files.  (The claim asks for more, that the error is the
\* invalid-blocks-JSON error; this much is already not so.)
C10_MalformedBlocksDeliverNothing ==
    MalformedBlocks
        => /\ Deliveries = <<>>
           /\ spc = "done" => serr # NoError


ComposerErrors ==
    {ErrInvalidTimestamp, ErrBlocksExclusive, ErrStdinConflict,
     ErrReadingBlocksFile, ErrInvalidBlocksJSON, ErrEmptyMessage}

APICallsIssued == SelectSeq(slog, LAMBDA e : e.call \in APICalls)

\* C11: whenever runSend has returned a validation error of the composition
\* (invalid timestamp, conflicting blocks sources, conflicting stdin usage,
\* unreadable blocks file, invalid blocks JSON, empty message), no API call
\* of any kind, the channel-listing call included, was issued in the run.
C11_ComposeBeforeNetwork ==
    (spc = "done" /\ serr \in ComposerErrors) => APICallsIssued = <<>>


Posts == SelectSeq(slog, LAMBDA e : e.call = APIPost)

\* one section block whose text object is of markdown type and holds t
DefaultBlockList(t) ==
    << [type |-> "section", text |-> [type |-> "mrkdwn", text |-> t]] >>

\* C12: every message runSend sends carries the default block list (one
\* section block, text object of type mrkdwn, holding the text of the message
\* as sent) if and only if no blocks content was supplied, no files were
\* requested, simple mode is off and the text is non-empty; in simple mode
\* with no blocks supplied it carries no blocks; supplied blocks are sent as
\* parsed.
C12_DefaultBlock ==
    \A k \in 1..Len(Posts) :
        LET m == Posts[k].with
        IN  /\ (m.blocks = DefaultBlockList(m.text))
                <=> (blocksSource = <<>> /\ opts.files = <<>>
                     /\ ~opts.simple /\ m.text # <<>>)
            /\ (opts.simple /\ blocksSource = <<>>) => m.blocks = <<>>
            /\ blocksSource # <<>>
                  => (m.blocks = Unmarshal(blocksSource).blocks
                      /\ m.blocks # DefaultBlockList(m.text))

C12_Witness ==
    /\ spc = "done" /\ serr = NoError
    /\ sText = <<"\\", "!">>
    /\ ~opts.simple
    /\ Len(Posts) = 1
    /\ Posts[1].with.text = <<"!">>
    /\ Posts[1].with.blocks = DefaultBlockList(<<"!">>)


CallsOf(names) == SelectSeq(slog, LAMBDA e : e.call \in names)

UploadCalls == {APIGetUploadURL, APIUpload, APIComplete}

\* C13: with at least one file requested runSend never calls SendMessage,
\* with or without a blocks source, and once the channel is resolved it is in
\* the upload pipeline, whose finalize call carries the message text as the
\* comment; with no file requested no upload-slot, byte-transfer or finalize
\* call is issued.
C13_FilesTakeUploadPath ==
    /\ opts.files # <<>> =>
          /\ Posts = <<>>
          /\ \A k \in 1..Len(CallsOf({APIComplete})) :
                CallsOf({APIComplete})[k].with.comment = text
          /\ channelID # <<>> =>
                \/ spc = "upload"
                \/ spc = "done" /\ CallsOf({StatFile}) # <<>>
    /\ opts.files = <<>> => CallsOf(UploadCalls) = <<>>

C13_Witness ==
    /\ spc = "done" /\ serr = NoError
    /\ Len(opts.files) = 2
    /\ blocksSource = <<"[", "B", "]">>
    /\ text = <<"h">>
    /\ Posts = <<>>
    /\ Len(CallsOf({APIComplete})) = 1
    /\ CallsOf({APIComplete})[1].with.comment = <<"h">>


\* the upload-slot requests and byte transfers of the run, in order
Transfers == CallsOf({APIGetUploadURL, APIUpload})

Finalizes == CallsOf({APIComplete})

\* C14: the calls of the upload pipeline are strictly ordered: the slot
\* request of file i, then its byte transfer, then the calls of file i+1;
\* the finalize call is issued at most once, only after every file's
\* transfer has succeeded, it is the last call of the run, and a run with
\* files that ends without error has issued it exactly once.
C14_UploadOrder ==
    /\ Len(Transfers) <= 2 * Len(opts.files)
    /\ \A k \in 1..Len(Transfers) :
          IF k % 2 = 1
          THEN /\ Transfers[k].call = APIGetUploadURL
               /\ Transfers[k].with = Base(opts.files[(k + 1) \div 2])
          ELSE /\ Transfers[k].call = APIUpload
               /\ Transfers[k].with = UploadSlot(k \div 2).UploadURL
    /\ Len(Finalizes) <= 1
    /\ Len(Finalizes) = 1 =>
          /\ slog[Len(slog)].call = APIComplete
          /\ Len(Transfers) = 2 * Len(opts.files)
          /\ Len(uploadedFiles) = Len(opts.files)
          /\ spc = "done"
    /\ (spc = "done" /\ serr = NoError /\ opts.files # <<>>) => Len(Finalizes) = 1

C14_Witness ==
    /\ spc = "done" /\ serr = NoError
    /\ opts.files = << <<"d", "/", "b.txt">>, <<"a.txt">> >>
    /\ Len(Transfers) = 4
    /\ Transfers[1].with = <<"b.txt">>
    /\ Transfers[3].with = <<"a.txt">>
    /\ Len(Finalizes) = 1


Names(err, prefix, path) ==
    /\ Len(err) >= 1 + Len(path)
    /\ err[1] = prefix
    /\ SubSeq(err, 2, 1 + Len(path)) = path

\* C15: when runSend has ended in the upload pipeline with a file not
\* uploaded, the step that failed for that file i (stat, slot request, open,
\* transfer) is the last call of the run, the error is the error of that
\* step (the stat and open errors naming the path), exactly the files up to
\* i were stat-ed, no slot request or transfer follows the failing step, for
\* file i or a later one, no finalize call was issued and no success was
\* printed.
C15_PerFileFailureAborts ==
    (spc = "done" /\ channelID # <<>> /\ Len(uploadedFiles) < Len(opts.files)) =>
        LET i == Len(uploadedFiles) + 1
            path == opts.files[i]
            last == slog[Len(slog)]
        IN  /\ serr # NoError
            /\ \/ /\ last = Event(StatFile, path)
                  /\ Names(serr, "cannot access file ", path)
                  /\ Len(Transfers) = 2 * (i - 1)
               \/ /\ last.call = APIGetUploadURL
                  /\ serr[1] = "get upload URL"
                  /\ Len(Transfers) = 2 * (i - 1) + 1
               \/ /\ last = Event(OpenFile, path)
                  /\ Names(serr, "opening file ", path)
                  /\ Len(Transfers) = 2 * (i - 1) + 1
               \/ /\ last.call = APIUpload
                  /\ serr[1] = "upload file"
                  /\ Len(Transfers) = 2 * i
            /\ Len(CallsOf({StatFile})) = i
            /\ Finalizes = <<>>
            /\ \A k \in 1..Len(sout) : sout[k] = "Uploading"

C15_Witness ==
    /\ spc = "done"
    /\ opts.files = << <<"a.txt">>, <<"d", "/", "b.txt">> >>
    /\ Len(uploadedFiles) = 1
    /\ Names(serr, "cannot access file ", <<"d", "/", "b.txt">>)
    /\ Len(Transfers) = 2
    /\ Finalizes = <<>>


\* two different files were requested and the run ended with the stat
\* failure of the second
SecondFileStatFailed ==
    /\ spc = "done"
    /\ Len(opts.files) = 2
    /\ opts.files[1] # opts.files[2]
    /\ slog # <<>>
    /\ slog[Len(slog)] = Event(StatFile, opts.files[2])
    /\ Names(serr, "cannot access file ", opts.files[2])

\* C16: when two files are uploaded and the second path does not exist, the
\* run has issued no upload-slot request and no byte transfer at all, for
\* the first file either, and no finalize call.
C16_NoCallsBeforeSecondStat ==
    SecondFileStatFailed => (Transfers = <<>> /\ Finalizes = <<>>)


SuccessPrinted ==
    \E k \in 1..Len(sout) : sout[k] \in {"File uploaded", "files uploaded", "Message sent"}

\* C17: when the finalize call has failed after every file was uploaded,
\* runSend has returned the finalize error wrapped with its operation label,
\* has printed no success, and the failed finalize call is the only finalize
\* call and the last call of the run: no retry and no compensating call.
C17_FinalizeFailure ==
    (spc = "done" /\ Finalizes # <<>>) =>
        /\ Len(Finalizes) = 1
        /\ slog[Len(slog)] = Finalizes[1]
        /\ Finalizes[1].with.files = uploadedFiles
        /\ Len(uploadedFiles) = Len(opts.files)
        /\ serr # NoError => (serr[1] = "complete upload" /\ Len(serr) = 3)
        /\ SuccessPrinted <=> serr = NoError

C17_Witness ==
    /\ spc = "done"
    /\ Len(opts.files) = 2
    /\ Len(uploadedFiles) = 2
    /\ Len(Finalizes) = 1
    /\ serr # NoError
    /\ serr[1] = "complete upload"
    /\ ~SuccessPrinted


(***************************************************************************)
(* More claims about the user resolver.                                    *)
(***************************************************************************)
\* the first non-empty string of a non-empty sequence, its last when all
\* the others are empty
RECURSIVE FirstNonEmpty(_)
FirstNonEmpty(ss) ==
    IF Len(ss) = 1 \/ Head(ss) # <<>> THEN Head(ss) ELSE FirstNonEmpty(Tail(ss))

PriorityName(user, userID) ==
    FirstNonEmpty(<<user.DisplayName, user.RealName, user.Name, userID>>)

\* C18: for every user record the name computed is the first non-empty of
\* display name, real name, account name, raw ID; the name a call holds
\* after a successful lookup is that name for a record of its user ID; and
\* the step that ends such a call returns that name and leaves it in the
\* cache under the ID.
C18_NamePriority ==
    [][ /\ \A u \in UserIDs : \A user \in Profiles(u) :
              DisplayNameOf(user, u) = PriorityName(user, u)
        /\ \A p \in Callers :
              /\ (pc[p] = "lookup" /\ pc'[p] = "lock2") =>
                    \E user \in Profiles(arg[p]) :
                        uname'[p] = PriorityName(user, arg[p])
              /\ (pc[p] = "store" /\ pc'[p] = "done") =>
                    /\ outcome'[p] = "stored"
                    /\ ret'[p] = uname[p]
                    /\ arg[p] \in DOMAIN cache'
                    /\ cache'[arg[p]] = ret'[p] ]_vars

C18_Witness ==
    /\ pc[1] = "done" /\ outcome[1] = "stored"
    /\ arg[1] = <<"U", "1">> /\ ret[1] = <<"b">>
    /\ pc[2] = "done" /\ outcome[2] = "stored"
    /\ arg[2] = <<"U", "A">> /\ ret[2] = <<"U", "A">>
    /\ cache[<<"U", "1">>] = <<"b">>
    /\ cache[<<"U", "A">>] = <<"U", "A">>


(***************************************************************************)
(* The text read from stdin.                                               *)
(***************************************************************************)
\* the stream as received, without its final line terminator
WithoutFinalNewline(data) ==
    IF data # <<>> /\ data[Len(data)] = "\n"
    THEN SubSeq(data, 1, Len(data) - 1)
    ELSE data

TextWasRead ==
    /\ sText = <<"-">>
    /\ slog # <<>>
    /\ slog[1].call = ReadStdin
    /\ serr # ErrReadingStdin

\* C19: when the text argument is '-', the text held after the read is the
\* stdin stream exactly as received but for its final line terminator, every
\* line, empty ones included, in its place; and an empty stdin, with no
\* blocks and no files, ends in the empty-message error.
C19_StdinTextAsReceived ==
    /\ (TextWasRead /\ spc = "source") => text = WithoutFinalNewline(slog[1].with)
    /\ (TextWasRead /\ spc = "done" /\ slog[1].with = <<>>
        /\ BlocksOptionsSet(opts) = {} /\ opts.files = <<>>)
           => serr = ErrEmptyMessage


\* C20: when a call's lookup has completed and the cache already holds a
\* name for the ID, the step that ends the call leaves the cached entry as
\* it is and returns the cached name.
C20_CachedValuePreferred ==
    [][ \A p \in Callers :
          (pc[p] = "store" /\ pc'[p] = "done" /\ arg[p] \in DOMAIN cache) =>
              /\ cache'[arg[p]] = cache[arg[p]]
              /\ ret'[p] = cache[arg[p]] ]_vars


\* the callers inside a critical section: at the cache check or the insert
InCritical(pcs) == {p \in Callers : pcs[p] \in {"check", "store"}}

\* C21: under every interleaving, a caller that is at the cache check or at
\* the cache insert holds the lock, at most one caller is there at a time,
\* and the cache changes only in a step of the caller that holds the lock.
C21_CacheUnderLock ==
    [][ /\ \A p \in InCritical(pc) : mu = p
        /\ \A p \in InCritical(pc') : mu' = p
        /\ Cardinality(InCritical(pc')) <= 1
        /\ cache' # cache =>
              /\ mu \in Callers
              /\ pc[mu] = "store" /\ pc'[mu] = "done" ]_vars

C21_Witness ==
    /\ pc[1] = "store" /\ mu = 1
    /\ pc[2] = "lock2"
    /\ arg[1] = <<"U", "1">> /\ arg[2] = <<"U", "1">>
    /\ uname[1] # uname[2]


(***************************************************************************)
(* More claims about the channel resolver.                                 *)
(***************************************************************************)
NameToken ==
    /\ StripOneHash(token) # <<>>
    /\ ~ChannelIDShape(StripOneHash(token))

\* C22: each ResolveChannel invocation for a name issues exactly one
\* channel-listing call, whether the listing succeeds or fails, and its
\* result is that of the listing of this invocation, not of an earlier one;
\* no invocation issues any call other than the listing call.
C22_OneListingCall ==
    [][ /\ (cpc = "start" /\ cpc' = "done" /\ NameToken) =>
              /\ chanCalls' = Append(chanCalls, ListCall)
              /\ listing.ok => NameOutcome(StripOneHash(StripOneHash(token)))'
              /\ ~listing.ok => chanRet'.err # NoError
        /\ \A k \in 1..Len(chanCalls') : chanCalls'[k] = ListCall ]_vars

C22_Witness ==
    /\ cpc = "done"
    /\ token = <<"#", "c">>
    /\ chanCalls = <<ListCall, ListCall>>
    /\ listing.ok
    /\ chanRet.err # NoError


\* C23: the lock is held only by a caller at the cache check or at the cache
\* insert, never by a caller whose lookup is in flight; so the lookups of
\* other callers never keep a caller from the lock: a caller waiting for the
\* lock can take it whenever no caller is at the check or the insert, and a
\* caller whose lookup is in flight can always have it answered.
C23_NoLockAcrossLookup ==
    /\ \A p \in Callers : mu = p => pc[p] \in {"check", "store"}
    /\ \A p \in Callers : pc[p] = "lookup" => mu # p
    /\ \A p \in Callers :
          /\ (pc[p] = "lock1" /\ InCritical(pc) = {}) => ENABLED Lock1(p)
          /\ (pc[p] = "lock2" /\ InCritical(pc) = {}) => ENABLED Lock2(p)
          /\ pc[p] = "lookup" => ENABLED LookupOK(p)

C23_Witness ==
    /\ pc[1] = "lookup" /\ arg[1] = <<"U", "1">>
    /\ pc[2] = "store" /\ arg[2] = <<"U", "A">>
    /\ mu = 2
    /\ nCalls = 2


(***************************************************************************)
(* The order of the validation of runSend.                                 *)
(***************************************************************************)
SeveralBlocksOptions == Cardinality(BlocksOptionsSet(opts)) > 1

StdinAskedTwice == sText = <<"-">> /\ opts.blocksStdin

FirstTestsPassed ==
    ThreadTSAcceptable /\ ~SeveralBlocksOptions /\ ~StdinAskedTwice

\* C24: when runSend has ended, the error is that of the earliest failing
\* step: an invalid thread timestamp gives the invalid-timestamp error; else
\* more than one blocks source gives the exclusive-options error; else text
\* '-' with blocks from stdin gives the stdin-conflict error, each with
\* nothing read; the unreadable-blocks-file error and the empty-message
\* error are returned only when all the steps before them have passed, the
\* empty-message error only after the blocks file was read, and no later
\* read or call follows the failing step.
C24_ValidationOrder ==
    spc = "done" =>
        /\ ~ThreadTSAcceptable => (serr = ErrInvalidTimestamp /\ slog = <<>>)
        /\ (ThreadTSAcceptable /\ SeveralBlocksOptions)
              => (serr = ErrBlocksExclusive /\ slog = <<>>)
        /\ (ThreadTSAcceptable /\ ~SeveralBlocksOptions /\ StdinAskedTwice)
              => (serr = ErrStdinConflict /\ slog = <<>>)
        /\ serr = ErrReadingBlocksFile =>
              /\ FirstTestsPassed
              /\ slog[Len(slog)] = Event(ReadFile, opts.blocksFile)
              /\ APICallsIssued = <<>>
        /\ serr = ErrEmptyMessage =>
              /\ FirstTestsPassed
              /\ text = <<>> /\ blocksSource = <<>> /\ opts.files = <<>>
              /\ opts.blocksFile # <<>> => slog[Len(slog)] = Event(ReadFile, opts.blocksFile)
              /\ APICallsIssued = <<>>

C24_Witness ==
    /\ spc = "done"
    /\ opts.threadTS = "not-a-timestamp"
    /\ SeveralBlocksOptions
    /\ StdinAskedTwice
    /\ opts.blocksFile # <<>>
    /\ sChannel = <<>>
    /\ serr = ErrInvalidTimestamp
    /\ slog = <<>>


(***************************************************************************)
(* The handles of the finalize call.                                       *)
(***************************************************************************)
\* what follows the last separator of a path
LastComponent(path) ==
    LET seps == {k \in 1..Len(path) : path[k] = "/"}
    IN  IF seps = {} THEN path
        ELSE SubSeq(path, (CHOOSE k \in seps : \A j \in seps : j <= k) + 1, Len(path))

\* the file ID that the k-th upload-slot request of the run returned
SlotFileID(k) == UploadSlot(k).FileID

\* C25: the finalize call carries one handle per requested file, in the
\* order of the files: the i-th handle holds the file ID returned by the
\* slot request of the i-th file, and the explicit title when one was given,
\* the base name of the i-th file otherwise.
C25_FinalizeHandles ==
    \A k \in 1..Len(Finalizes) :
        LET handles == Finalizes[k].with.files
        IN  /\ Len(handles) = Len(opts.files)
            /\ \A i \in 1..Len(handles) :
                  /\ Transfers[2 * i - 1].call = APIGetUploadURL
                  /\ Transfers[2 * i - 1].with = LastComponent(opts.files[i])
                  /\ handles[i].ID = SlotFileID(i)
                  /\ handles[i].Title = IF opts.fileTitle # <<>>
                                        THEN opts.fileTitle
                                        ELSE LastComponent(opts.files[i])

C25_Witness ==
    /\ spc = "done" /\ serr = NoError
    /\ opts.files = << <<"d", "/", "b.txt">>, <<"a.txt">> >>
    /\ opts.fileTitle = <<>>
    /\ Len(Finalizes) = 1
    /\ Finalizes[1].with.files = << [ID |-> <<"F", 1>>, Title |-> <<"b.txt">>],
                                     [ID |-> <<"F", 2>>, Title |-> <<"a.txt">>] >>


(***************************************************************************)
(* Claims about runArchive.                                                *)
(***************************************************************************)
\* the first line of a stream that holds one
FirstLine(data) ==
    LET ends == {k \in 1..Len(data) : data[k] = "\n"}
    IN  IF ends = {} THEN data
        ELSE SubSeq(data, 1, (CHOOSE k \in ends : \A j \in ends : k <= j) - 1)

\* a confirmation line was read from stdin and, trimmed and lower-cased, it
\* is "y" or "yes"
AnsweredYes ==
    /\ alog # <<>>
    /\ alog[1].call = ReadStdin
    /\ alog[1].with # <<>>
    /\ TrimSpace(ToLower(FirstLine(alog[1].with))) \in {<<"y">>, <<"y", "e", "s">>}

\* C26: without the force option, once the confirmation step is over and
\* no confirmation line saying "y" or "yes" was read (another answer, an
\* empty line, or end of input with no line), runArchive has ended with no
\* channel resolved and no call made: the channel is archived only after a
\* confirmation.
C26_ArchiveOnlyIfConfirmed ==
    (~aForce /\ apc \notin {"off", "confirm"} /\ ~AnsweredYes) =>
        /\ apc = "done"
        /\ aChannelID = <<>>
        /\ Len(alog) = 1


(***************************************************************************)
(* The cache of the user resolver.                                         *)
(***************************************************************************)
\* C27: the step in which a lookup fails returns the raw ID and leaves the
\* cache as it is; and a call that finds no entry for its ID at the cache
\* check, as the call after a failed lookup does, issues a lookup, whose
\* name, when it succeeds, is what the call returns (C18).
C27_FailedLookupNotCached ==
    [][ \A p \in Callers :
          /\ (pc[p] = "lookup" /\ pc'[p] = "done") =>
                /\ cache' = cache
                /\ outcome'[p] = "failed"
                /\ ret'[p] = arg[p]
          /\ (pc[p] = "check" /\ pc'[p] # "check" /\ arg[p] \notin DOMAIN cache) =>
                /\ pc'[p] = "lookup"
                /\ lookups'[arg[p]] = lookups[arg[p]] + 1
          /\ (pc[p] = "lookup" /\ failed[arg[p]] > 0 /\ pc'[p] = "lock2") =>
                \E user \in Profiles(arg[p]) : uname'[p] = PriorityName(user, arg[p]) ]_vars

C27_Witness ==
    /\ nCalls = 2
    /\ failed[<<"U", "1">>] = 1
    /\ lookups[<<"U", "1">>] = 2
    /\ pc[1] = "done" /\ outcome[1] = "stored"
    /\ arg[1] = <<"U", "1">> /\ ret[1] = <<"a">>
    /\ cache[<<"U", "1">>] = <<"a">>


\* every entry of the cache is a non-empty name computed from a record of
\* the user ID it is stored under
CacheSound ==
    \A u \in DOMAIN cache :
        /\ u \in UserIDs
        /\ cache[u] # <<>>
        /\ \E user \in Profiles(u) : cache[u] = PriorityName(user, u)

\* C28: under every interleaving, after every step each cache entry maps a
\* user ID to a non-empty name computed from a successful lookup of that
\* same ID, there is an entry only for an ID whose lookup has succeeded, and
\* no step removes an entry.
C28_CacheEntries ==
    [][ /\ CacheSound'
        /\ \A u \in DOMAIN cache' : lookups'[u] > failed'[u]
        /\ DOMAIN cache \subseteq DOMAIN cache' ]_vars

C28_Witness ==
    /\ DOMAIN cache = UserIDs
    /\ cache[<<"U", "1">>] = <<"c">>
    /\ cache[<<"U", "A">>] = <<"x">>
    /\ failed[<<"U", "1">>] = 1


InCall(p) == pc[p] \in {"lock1", "check", "lookup", "lock2", "store"}

\* C29: a caller that has returned from Resolve, by whichever exit, does not
\* hold the lock; and with any number of concurrent callers, when lookups
\* are answered and callers are scheduled, every Resolve call in progress
\* eventually returns.
C29_ResolveReturns ==
    \A p \in Callers :
        /\ [](pc[p] \in {"idle", "done"} => mu # p)
        /\ InCall(p) ~> pc[p] = "done"

C29_Witness ==
    /\ nCalls = MaxResolveCalls
    /\ \A p \in Callers : pc[p] = "done"
    /\ mu = 0
    /\ outcome[1] = "hit" /\ outcome[2] = "failed"
    /\ arg[1] = arg[2]

(***************************************************************************)
(* Claims about tokens made of '#' characters only.                        *)
(***************************************************************************)
HashOnly(s) == s # <<>> /\ \A i \in 1..Len(s) : s[i] = "#"

\* C30: every token made only of '#' characters fails with the
\* empty-identifier error and no listing call is issued for it.
C30_HashOnlyTokens ==
    (cpc = "done" /\ HashOnly(token))
        => /\ chanRet.err = <<"channel cannot be empty">>
           /\ \A i \in 1..Len(chanCalls) : chanCalls[i] # ListCall

====
